---- MODULE Spec2Model ----
(***************************************************************************)
(* Model of scripts.py: a batch / interactive client of a text-moderation  *)
(* API.  The program is single-threaded; its steps are cut at the places   *)
(* where it talks to the outside world (menu input, file read, HTTP POST,  *)
(* HTTP GET, sleep) and at function returns, so that the value a function  *)
(* returned or the exception it raised is visible in a state.              *)
(*                                                                         *)
(* Numbers: every score is a fixed-point number in hundredths, so 50       *)
(* stands for 0.50 and 5000 for 50.00.  Rows are numbered from 1 here      *)
(* (pandas numbers them from 0).                                           *)
(***************************************************************************)
EXTENDS Integers, Sequences, FiniteSets, TLC

\* ------------------------------------------------------------------------
\* Bounds of the model
\* ------------------------------------------------------------------------

\* Largest number of rows of an input table.
MaxRows == 3

\* Largest number of "processing" answers the API gives to one poll.
MaxProcessing == 2

\* ------------------------------------------------------------------------
\* Program constants
\* ------------------------------------------------------------------------

\* wait_interval = 5 (seconds between attempts).
wait_interval == 5

\* rejection_threshold=0.2, in hundredths.
rejection_threshold == 20

\* ------------------------------------------------------------------------
\* Values exchanged with the outside world
\* ------------------------------------------------------------------------

\* The text of row i of an input table ("Données à tester" column).
TextOfRow(i) == i

\* Texts the operator may type in interactive mode.
Texts == {1, 2}

\* A JSON value read with dict.get(key, default): a number, null, or no key.
Num(v) == [k |-> "num", v |-> v]
Null == [k |-> "null", v |-> 0]
Absent == [k |-> "absent", v |-> 0]

\* One sub-item of a result entry: {"category": c, "likelihood_score": s}.
Item(c, s) == [hasCategory |-> TRUE, category |-> c, likelihood_score |-> Num(s)]

\* A sub-item with neither key.
BareItem == [hasCategory |-> FALSE, category |-> "", likelihood_score |-> Absent]

\* One entry of content.results.text__moderation.results.
Entry(nsfw, items) == [nsfw_likelihood_score |-> nsfw, items |-> items]

\* The JSON body of a GET response.
\*   hasContent : the "content" key is present
\*   hasStatus  : content has a "status" key
\*   hasTM      : content.results has a "text__moderation" key
\*   hasList    : text__moderation has a "results" key
Payload(hasContent, hasStatus, status, hasTM, hasList, list) ==
    [hasContent |-> hasContent, hasStatus |-> hasStatus, status |-> status,
     hasTM |-> hasTM, hasList |-> hasList, list |-> list]

\* No payload fetched (yet).
NoPayload == Payload(FALSE, FALSE, "-", FALSE, FALSE, <<>>)

\* A payload that only reports a status.
StatusOnly(s) == Payload(TRUE, TRUE, s, FALSE, FALSE, <<>>)

\* A completed payload with the given text-moderation section.
Succeeded(hasTM, hasList, list) == Payload(TRUE, TRUE, "succeeded", hasTM, hasList, list)

ERejected == Entry(Num(50), <<Item("A", 30), Item("B", 90), Item("C", 90)>>)
EValidated == Entry(Num(10), <<BareItem>>)
EThreshold == Entry(Num(20), <<Item("A", 30)>>)
ENoScore == Entry(Absent, <<>>)
ENullScore == Entry(Null, <<Item("A", 30)>>)

\* Completed payloads the API may answer with.
SucceededPayloads ==
    { Succeeded(FALSE, FALSE, <<>>),
      Succeeded(TRUE, FALSE, <<>>),
      Succeeded(TRUE, TRUE, <<>>),
      Succeeded(TRUE, TRUE, <<ERejected>>),
      Succeeded(TRUE, TRUE, <<EValidated, ERejected>>),
      Succeeded(TRUE, TRUE, <<EThreshold>>),
      Succeeded(TRUE, TRUE, <<ENoScore>>),
      Succeeded(TRUE, TRUE, <<ENullScore>>) }

\* Payloads that end a poll without success.
FailingPayloads ==
    { StatusOnly("failed"),
      StatusOnly("weird"),
      Payload(TRUE, FALSE, "", FALSE, FALSE, <<>>),
      Payload(FALSE, FALSE, "", FALSE, FALSE, <<>>) }

\* The answer of one GET: the call raises (network failure, body not JSON),
\* or it returns a payload.
GetAnswer(raised, payload) == [raised |-> raised, payload |-> payload]

\* An execution identifier as the API returns it: a string, or a JSON value
\* that is no string (a number, null).
StrId(v) == [k |-> "str", v |-> v]
NonStrId == [k |-> "nonstr", v |-> "7"]
NoId == [k |-> "none", v |-> ""]
Ids == {StrId("h1"), StrId("h2"), NonStrId}

\* The answer of one POST: the call raises, or it returns a JSON object with
\* or without an "id".
PostAnswer(raised, hasId, id) == [raised |-> raised, hasId |-> hasId, id |-> id]
NoAnswer == PostAnswer(FALSE, FALSE, [k |-> "-", v |-> ""])
PostAnswers ==
    { PostAnswer(TRUE, FALSE, NoId), PostAnswer(FALSE, FALSE, NoId) }
    \cup { PostAnswer(FALSE, TRUE, i) : i \in Ids }

\* Input files: unreadable, readable without the required column, or a
\* table of n rows with it.
File(readable, hasColumn, n) == [readable |-> readable, hasColumn |-> hasColumn, n |-> n]
NoFile == File(FALSE, FALSE, 0)
Files ==
    { File(FALSE, FALSE, 0) }
    \cup { File(TRUE, c, n) : c \in BOOLEAN, n \in 0..MaxRows }

\* Exceptions.  kind names the raise site; payload and status are what the
\* message carries ("Moderation failed: {result}", "Unexpected status:
\* {status}").
Err(kind, payload, status) == [kind |-> kind, payload |-> payload, status |-> status]
NoErr == Err("none", NoPayload, "")

\* ------------------------------------------------------------------------
\* Pure functions of the program
\* ------------------------------------------------------------------------

\* dict.get(key, 0) on a score: the default 0 when the key is missing.
GetScore(x) == IF x.k = "absent" THEN Num(0) ELSE x

\* result.get("content", {}).get("status", "")
StatusOf(p) == IF p.hasContent /\ p.hasStatus THEN p.status ELSE ""

\* Mutant: a status the loop does not know is waited on like "processing".
PollVerdict_lenient(p) ==
    LET status == IF p.hasContent /\ p.hasStatus THEN p.status ELSE "" IN
    IF status = "succeeded" THEN [do |-> "return", err |-> NoErr]
    ELSE IF status = "failed"
         THEN [do |-> "raise", err |-> Err("ModerationFailed", p, "")]
    ELSE [do |-> "sleep", err |-> NoErr]

\* The verdict of one poll iteration on the fetched payload:
\* "return", "raise" or "sleep", with the exception raised.
PollVerdict(p) ==
    LET status == StatusOf(p) IN
    IF status = "succeeded" THEN [do |-> "return", err |-> NoErr]
    ELSE IF status = "failed"
         THEN [do |-> "raise", err |-> Err("ModerationFailed", p, "")]
    ELSE IF status = "processing" THEN [do |-> "sleep", err |-> NoErr]
    ELSE [do |-> "raise", err |-> Err("UnexpectedStatus", NoPayload, status)]

\* The loop over the sub-items, from sub-item i on, with the running
\* highest_category / highest_score.  Comparing null with a number raises.
RECURSIVE HighestCategory(_, _, _, _)
HighestCategory(items, i, highest_category, highest_score) ==
    IF i > Len(items)
    THEN [raised |-> FALSE, category |-> highest_category]
    ELSE LET subitem == items[i]
             score == GetScore(subitem.likelihood_score)
         IN IF score.k = "null"
            THEN [raised |-> TRUE, category |-> highest_category]
            ELSE IF score.v > highest_score
                 THEN HighestCategory(items, i + 1,
                          IF subitem.hasCategory THEN subitem.category ELSE "Unknown",
                          score.v)
                 ELSE HighestCategory(items, i + 1, highest_category, highest_score)

\* A value returned by process_moderation_results, or the fact that it raised.
Interpreted(raised, chance, category, status) ==
    [raised |-> raised, rejection_chance |-> chance, category |-> category,
     status |-> status]

\* Mutant: a score equal to the threshold is not rejected.
process_moderation_results_strict(results, rejection_threshold_) ==
    IF ~(results.hasContent /\ results.hasTM)
    THEN Interpreted(FALSE, 0, "Unknown", "success")
    ELSE LET text_results == IF results.hasList THEN results.list ELSE <<>> IN
         IF text_results = <<>>
         THEN Interpreted(FALSE, 0, "Unknown", "succeeded")
         ELSE LET result == text_results[1]
                  nsfw == GetScore(result.nsfw_likelihood_score)
                  highest == HighestCategory(result.items, 1, "Unknown", 0)
              IN IF nsfw.k = "null" \/ highest.raised
                 THEN Interpreted(TRUE, 0, "", "")
                 ELSE Interpreted(FALSE, nsfw.v * 100, highest.category,
                          IF nsfw.v > rejection_threshold_
                          THEN "rejected" ELSE "validated")

\* Mutant: the two "no data" returns use the same status string.
process_moderation_results_success(results, rejection_threshold_) ==
    IF ~(results.hasContent /\ results.hasTM)
    THEN Interpreted(FALSE, 0, "Unknown", "success")
    ELSE LET text_results == IF results.hasList THEN results.list ELSE <<>> IN
         IF text_results = <<>>
         THEN Interpreted(FALSE, 0, "Unknown", "success")
         ELSE LET result == text_results[1]
                  nsfw == GetScore(result.nsfw_likelihood_score)
                  highest == HighestCategory(result.items, 1, "Unknown", 0)
              IN IF nsfw.k = "null" \/ highest.raised
                 THEN Interpreted(TRUE, 0, "", "")
                 ELSE Interpreted(FALSE, nsfw.v * 100, highest.category,
                          IF nsfw.v >= rejection_threshold_
                          THEN "rejected" ELSE "validated")

\* Mutant: the return is after the loop, so the last entry decides.
process_moderation_results_last(results, rejection_threshold_) ==
    IF ~(results.hasContent /\ results.hasTM)
    THEN Interpreted(FALSE, 0, "Unknown", "success")
    ELSE LET text_results == IF results.hasList THEN results.list ELSE <<>> IN
         IF text_results = <<>>
         THEN Interpreted(FALSE, 0, "Unknown", "succeeded")
         ELSE LET result == text_results[Len(text_results)]
                  nsfw == GetScore(result.nsfw_likelihood_score)
                  highest == HighestCategory(result.items, 1, "Unknown", 0)
              IN IF nsfw.k = "null" \/ highest.raised
                 THEN Interpreted(TRUE, 0, "", "")
                 ELSE Interpreted(FALSE, nsfw.v * 100, highest.category,
                          IF nsfw.v >= rejection_threshold_
                          THEN "rejected" ELSE "validated")

\* No call of the interpreter has returned.
NoOutcome == Interpreted(FALSE, 0, "-", "-")

\* process_moderation_results(results, rejection_threshold)
process_moderation_results(results, rejection_threshold_) ==
    IF ~(results.hasContent /\ results.hasTM)
    THEN Interpreted(FALSE, 0, "Unknown", "success")
    ELSE LET text_results == IF results.hasList THEN results.list ELSE <<>> IN
         IF text_results = <<>>
         THEN Interpreted(FALSE, 0, "Unknown", "succeeded")
         ELSE LET result == text_results[1]
                  nsfw == GetScore(result.nsfw_likelihood_score)
                  highest == HighestCategory(result.items, 1, "Unknown", 0)
              IN IF nsfw.k = "null" \/ highest.raised
                 THEN Interpreted(TRUE, 0, "", "")
                 ELSE Interpreted(FALSE, nsfw.v * 100, highest.category,
                          IF nsfw.v >= rejection_threshold_
                          THEN "rejected" ELSE "validated")

\* Mutant: result.get("id"), which returns null when there is no "id".
post_text_to_moderate_get(answer) ==
    IF answer.raised
    THEN [raised |-> TRUE, err |-> Err("HttpError", NoPayload, ""), id |-> NoId]
    ELSE IF answer.hasId
         THEN [raised |-> FALSE, err |-> NoErr, id |-> answer.id]
         ELSE [raised |-> FALSE, err |-> NoErr, id |-> NonStrId]

\* post_text_to_moderate on the answer of its POST: the identifier it
\* returns, or the exception it raises.
post_text_to_moderate(answer) ==
    IF answer.raised
    THEN [raised |-> TRUE, err |-> Err("HttpError", NoPayload, ""), id |-> NoId]
    ELSE IF answer.hasId
         THEN [raised |-> FALSE, err |-> NoErr, id |-> answer.id]
         ELSE [raised |-> TRUE, err |-> Err("NoId", NoPayload, ""), id |-> NoId]

\* API_URL_GET.replace("{execution_id}", execution_id): the identifier in
\* the URL, or a TypeError when the identifier is no string.
BuildUrl(id) ==
    IF id.k = "str"
    THEN [raised |-> FALSE, err |-> NoErr, key |-> id]
    ELSE [raised |-> TRUE, err |-> Err("TypeError", NoPayload, ""), key |-> NoId]

\* f"{rejection_chance:.2f}": the number with two decimals.
Format2(chance) == [whole |-> chance \div 100, cents |-> chance % 100]

\* ------------------------------------------------------------------------
\* State
\* ------------------------------------------------------------------------

VARIABLES
    pc,            \* where the program is: "menu", "post", "get", "sleep",
                   \* "interpret", "except", "done"
    mode,          \* "none", "batch" (choice 1), "single" (choice 2)
    input_file,    \* the file read by pd.read_excel
    df,            \* the table: one record of the three result columns per row
    index,         \* the row being processed (0 outside the loop)
    text,          \* the text being moderated
    execution_id,  \* what post_text_to_moderate returned
    url,           \* the identifier substituted in API_URL_GET
    result,        \* get_moderation_result: the body of its last GET
    results,       \* what get_moderation_result returned
    error,         \* the exception being propagated
    output,        \* the content of SyntheticDataResult.xlsx
    printed,       \* the lines written to the terminal
    posts,         \* history: POSTs issued for this item
    gets,          \* history: GETs issued for this item
    sleeps,        \* history: the sleeps of this item, each with its length
    seen,          \* history: the statuses this poll has read
    postAnswer,    \* history: the answer to the POST of this item
    submitted,     \* history: the rows POSTed so far, in order
    fetched,       \* history: per row, the payload its poll returned
    lastHttp,      \* history: the last HTTP call made
    threshold,     \* the rejection_threshold argument of the interpreter
    returned       \* what a direct call of the interpreter returned

vars == <<pc, mode, input_file, df, index, text, execution_id, url, result,
          results, error, output, printed, posts, gets, sleeps, seen, postAnswer,
          submitted, fetched, lastHttp, threshold, returned>>

\* len(df)
nrows == input_file.n

\* A row of the three result columns.
Row(taux, categorie, status) ==
    [taux_de_rejet |-> taux, categorie |-> categorie, status |-> status]

\* Mutant: the category column starts as the interpreter's default.
DefaultRow_unknown == Row(0, "Unknown", "")

\* df["Taux de rejet (%)"] = 0.0; df["Catégorie"] = ""; df["Status"] = ""
DefaultRow == Row(0, "", "")

\* The output file: not written, or written with a table.
NotWritten == [writes |-> 0, rows |-> <<>>]

\* An HTTP call: its method, the row it was made for (0 in interactive
\* mode), the text posted or the identifier in the URL, whether it
\* returned, and its number among the calls of that item.
Http(method, row, txt, key, ok, n) ==
    [method |-> method, row |-> row, text |-> txt, key |-> key, ok |-> ok, n |-> n]
NoHttp == Http("none", 0, 0, NoId, TRUE, 0)

\* Lines on the terminal.
RowErrorLine(row, err) == [k |-> "RowError", row |-> row, error |-> err]
ErrorLine(err) == [k |-> "Error", error |-> err]
SavedLine == [k |-> "Results saved"]
InvalidLine == [k |-> "Invalid choice"]
ResultLines(r) ==
    << [k |-> "--- Results ---"],
       [k |-> "Rejection Chance", chance |-> Format2(r.rejection_chance)],
       [k |-> "Category", category |-> r.category],
       [k |-> "Status", status |-> r.status] >>

Init ==
    /\ pc = "menu"
    /\ mode = "none"
    /\ input_file = NoFile
    /\ df = <<>>
    /\ index = 0
    /\ text = 0
    /\ execution_id = NoId
    /\ url = NoId
    /\ result = NoPayload
    /\ results = NoPayload
    /\ error = NoErr
    /\ output = NotWritten
    /\ printed = <<>>
    /\ posts = 0
    /\ gets = 0
    /\ sleeps = <<>>
    /\ seen = <<>>
    /\ postAnswer = NoAnswer
    /\ submitted = <<>>
    /\ fetched = <<>>
    /\ lastHttp = NoHttp
    /\ threshold = rejection_threshold
    /\ returned = NoOutcome

\* ------------------------------------------------------------------------
\* Steps
\* ------------------------------------------------------------------------

\* The variables of one submit / poll / interpret cycle, before its POST.
\* execution_id is a local of process_file: it keeps the identifier of the
\* previous row until the next assignment.
FreshItem ==
    /\ execution_id' = execution_id
    /\ url' = NoId
    /\ result' = NoPayload
    /\ results' = NoPayload
    /\ error' = NoErr
    /\ posts' = 0
    /\ gets' = 0
    /\ sleeps' = <<>>
    /\ seen' = <<>>
    /\ postAnswer' = NoAnswer

\* df.to_excel("SyntheticDataResult.xlsx", index=False): the file holds the
\* table, whatever it held before.
to_excel(file, table) == [writes |-> file.writes + 1, rows |-> table]

\* Mutant: the loop stops one row early.
HasNextRow_early(i, n) == i < n - 1

\* Whether the for loop of process_file has a row after row i of n.
HasNextRow(i, n) == i < n

\* The row df.iterrows() yields after row i.
NextIndex(i) == i + 1

\* Mutant: the column check never fires.
ColumnMissing_never(file) == FALSE

\* "Données à tester" not in df.columns
ColumnMissing(file) == ~file.hasColumn

\* Mutant: the wait grows with the number of attempts.
SleepInterval_backoff(n) == wait_interval * n

\* The length of the sleep after the n-th "processing" answer.
SleepInterval(n) == wait_interval

\* df.at[index, "Taux de rejet (%)"] = float(rejection_chance), and the
\* two other columns.
RecordRow(table, i, r) ==
    [table EXCEPT ![i] = Row(r.rejection_chance, r.category, r.status)]

\* Mutant: df["Status"] = "Error", which writes the whole column.
ErrorRow_column(table, i) ==
    [j \in DOMAIN table |-> [table[j] EXCEPT !.status = "Error"]]

\* Mutant: the handler also writes the interpreter's default category.
ErrorRow_unknown(table, i) ==
    [table EXCEPT ![i] = Row(0, "Unknown", "Error")]

\* Mutant: the handler logs the failure and records nothing.
ErrorRow_forget(table, i) == table

\* Mutant: the handler records the job's status word.
ErrorRow_failed(table, i) == [table EXCEPT ![i].status = "failed"]

\* df.at[index, "Status"] = "Error"
ErrorRow(table, i) == [table EXCEPT ![i].status = "Error"]

\* The end of one iteration of the for loop, the table and the terminal
\* being table2 and printed2: the next row, or after the last row the
\* output file and "Results saved".
EndOfRow(table2, printed2) ==
    /\ df' = table2
    /\ IF HasNextRow(index, nrows)
       THEN /\ index' = NextIndex(index)
            /\ text' = TextOfRow(NextIndex(index))
            /\ pc' = "post"
            /\ output' = output
            /\ printed' = printed2
       ELSE /\ index' = index
            /\ text' = text
            /\ pc' = "done"
            /\ output' = to_excel(output, table2)
            /\ printed' = Append(printed2, SavedLine)
    /\ FreshItem
    /\ UNCHANGED <<mode, input_file, submitted, fetched, lastHttp>>

\* main, choice "1": process_file(input_file) up to its first POST.
process_file(file) ==
    /\ pc = "menu"
    /\ mode' = "batch"
    /\ input_file' = file
    /\ IF ~file.readable
       THEN /\ printed' = Append(printed, ErrorLine(Err("ReadError", NoPayload, "")))
            /\ pc' = "done"
            /\ UNCHANGED <<df, index, text, output, fetched>>
       ELSE IF ColumnMissing(file)
       THEN /\ printed' = Append(printed, ErrorLine(Err("MissingColumn", NoPayload, "")))
            /\ pc' = "done"
            /\ UNCHANGED <<df, index, text, output, fetched>>
       ELSE /\ fetched' = [i \in 1..file.n |-> NoPayload]
            /\ df' = [i \in 1..file.n |-> DefaultRow]
            /\ IF file.n = 0
               THEN /\ output' = to_excel(output, <<>>)
                    /\ printed' = Append(printed, SavedLine)
                    /\ pc' = "done"
                    /\ UNCHANGED <<index, text>>
               ELSE /\ index' = 1
                    /\ text' = TextOfRow(1)
                    /\ pc' = "post"
                    /\ UNCHANGED <<output, printed>>
    /\ UNCHANGED <<execution_id, url, result, results, error, posts, gets,
                   sleeps, seen, postAnswer, submitted, lastHttp>>
    /\ UNCHANGED <<threshold, returned>>

\* main, choice "2": test_single_text() up to its POST.
test_single_text(t) ==
    /\ pc = "menu"
    /\ mode' = "single"
    /\ text' = t
    /\ pc' = "post"
    /\ UNCHANGED <<input_file, df, index, execution_id, url, result, results,
                   error, output, printed, posts, gets, sleeps, seen, postAnswer,
                   submitted, fetched, lastHttp>>
    /\ UNCHANGED <<threshold, returned>>

\* main, any other choice.
invalid_choice ==
    /\ pc = "menu"
    /\ printed' = Append(printed, InvalidLine)
    /\ pc' = "done"
    /\ UNCHANGED <<mode, input_file, df, index, text, execution_id, url,
                   result, results, error, output, fetched, posts, gets, sleeps,
                   seen, postAnswer, submitted, lastHttp>>
    /\ UNCHANGED <<threshold, returned>>

\* Mutant: a submit that failed is logged and the poll goes on with the
\* identifier execution_id still holds.
Submit_stale(answer) ==
    /\ pc = "post"
    /\ posts' = posts + 1
    /\ postAnswer' = answer
    /\ submitted' = Append(submitted, index)
    /\ lastHttp' = Http("POST", index, text, NoId, ~answer.raised, posts + gets + 1)
    /\ LET r == post_text_to_moderate(answer)
           u == BuildUrl(IF r.raised THEN execution_id ELSE r.id)
       IN /\ execution_id' = IF r.raised THEN execution_id ELSE r.id
          /\ IF u.raised
             THEN /\ error' = u.err
                  /\ pc' = "except"
                  /\ url' = url
             ELSE /\ url' = u.key
                  /\ pc' = "get"
                  /\ error' = error
    /\ UNCHANGED <<mode, input_file, df, index, text, result, results, output,
                   printed, gets, sleeps, seen, fetched>>
    /\ UNCHANGED <<threshold, returned>>

\* execution_id = post_text_to_moderate(text), then the first line of
\* get_moderation_result, which builds the URL.
Submit(answer) ==
    /\ pc = "post"
    /\ posts' = posts + 1
    /\ postAnswer' = answer
    /\ submitted' = Append(submitted, index)
    /\ lastHttp' = Http("POST", index, text, NoId, ~answer.raised, posts + gets + 1)
    /\ LET r == post_text_to_moderate(answer)
           u == BuildUrl(r.id)
       IN IF r.raised
          THEN /\ error' = r.err
               /\ pc' = "except"
               /\ UNCHANGED <<execution_id, url>>
          ELSE /\ execution_id' = r.id
               /\ IF u.raised
                  THEN /\ error' = u.err
                       /\ pc' = "except"
                       /\ url' = url
                  ELSE /\ url' = u.key
                       /\ pc' = "get"
                       /\ error' = error
    /\ UNCHANGED <<mode, input_file, df, index, text, result, results, output,
                   printed, gets, sleeps, seen, fetched>>
    /\ UNCHANGED <<threshold, returned>>

\* The answers the API may give to the next GET of a poll that has read the
\* statuses s.
GetAnswers(s) ==
    { GetAnswer(TRUE, NoPayload) }
    \cup { GetAnswer(FALSE, p) : p \in SucceededPayloads \cup FailingPayloads }
    \cup { GetAnswer(FALSE, StatusOnly("processing")) : x \in
             IF Len(s) < MaxProcessing THEN {1} ELSE {} }

\* One iteration of the while loop of get_moderation_result, up to its
\* return, its raise or its sleep.
PollGet(answer) ==
    /\ pc = "get"
    /\ gets' = gets + 1
    /\ lastHttp' = Http("GET", index, 0, url, ~answer.raised, posts + gets + 1)
    /\ IF answer.raised
       THEN /\ error' = Err("HttpError", NoPayload, "")
            /\ pc' = "except"
            /\ UNCHANGED <<result, results, seen, fetched>>
       ELSE LET v == PollVerdict(answer.payload) IN
            /\ result' = answer.payload
            /\ seen' = Append(seen, StatusOf(answer.payload))
            /\ error' = v.err
            /\ pc' = CASE v.do = "return" -> "interpret"
                       [] v.do = "raise" -> "except"
                       [] OTHER -> "sleep"
            /\ results' = IF v.do = "return" THEN answer.payload ELSE results
            /\ fetched' = IF v.do = "return" /\ mode = "batch"
                          THEN [fetched EXCEPT ![index] = answer.payload]
                          ELSE fetched
    /\ UNCHANGED <<mode, input_file, df, index, text, execution_id, url,
                   output, printed, posts, sleeps, postAnswer, submitted>>
    /\ UNCHANGED <<threshold, returned>>

\* Mutant: the poll gives up after its first wait.
PollSleep_timeout ==
    /\ pc = "sleep"
    /\ sleeps' = Append(sleeps, wait_interval)
    /\ IF Len(sleeps) >= 1
       THEN pc' = "except" /\ error' = Err("Timeout", NoPayload, "")
       ELSE pc' = "get" /\ error' = error
    /\ UNCHANGED <<mode, input_file, df, index, text, execution_id, url, result,
                   results, output, printed, posts, gets, seen, postAnswer,
                   submitted, fetched, lastHttp>>
    /\ UNCHANGED <<threshold, returned>>

\* Mutant: time.sleep never returns.
PollSleep_hang ==
    /\ pc = "sleep"
    /\ UNCHANGED vars

\* time.sleep(wait_interval)
PollSleep ==
    /\ pc = "sleep"
    /\ sleeps' = Append(sleeps, SleepInterval(Len(sleeps) + 1))
    /\ pc' = "get"
    /\ UNCHANGED <<mode, input_file, df, index, text, execution_id, url, result,
                   results, error, output, printed, posts, gets, seen, postAnswer,
                   submitted, fetched, lastHttp>>
    /\ UNCHANGED <<threshold, returned>>

\* rejection_chance, category, status = process_moderation_results(results)
\* and what follows it in the try block.
Interpret ==
    /\ pc = "interpret"
    /\ LET r == process_moderation_results(results, rejection_threshold) IN
       IF r.raised
       THEN /\ error' = Err("TypeError", NoPayload, "")
            /\ pc' = "except"
            /\ UNCHANGED <<mode, input_file, df, index, text, execution_id,
                           url, result, results, output, printed, posts, gets,
                           sleeps, seen, postAnswer, submitted, fetched,
                           lastHttp>>
       ELSE IF mode = "batch"
       THEN EndOfRow(RecordRow(df, index, r), printed)
       ELSE /\ printed' = printed \o ResultLines(r)
            /\ pc' = "done"
            /\ UNCHANGED <<mode, input_file, df, index, text, execution_id,
                           url, result, results, error, output, posts, gets,
                           sleeps, seen, postAnswer, submitted, fetched,
                           lastHttp>>
    /\ UNCHANGED <<threshold, returned>>

\* Mutant: a failed HTTP call is tried again, up to three calls per item.
Except_retry ==
    /\ pc = "except"
    /\ IF error.kind = "HttpError" /\ posts + gets < 3
       THEN /\ pc' = IF gets = 0 THEN "post" ELSE "get"
            /\ error' = NoErr
            /\ UNCHANGED <<mode, input_file, df, index, text, execution_id,
                           url, result, results, output, printed, posts, gets,
                           sleeps, seen, postAnswer, submitted, fetched,
                           lastHttp>>
       ELSE IF mode = "batch"
       THEN EndOfRow(ErrorRow(df, index), Append(printed, RowErrorLine(index, error)))
       ELSE /\ printed' = Append(printed, ErrorLine(error))
            /\ pc' = "done"
            /\ UNCHANGED <<mode, input_file, df, index, text, execution_id,
                           url, result, results, error, output, posts, gets,
                           sleeps, seen, postAnswer, submitted, fetched,
                           lastHttp>>
    /\ UNCHANGED <<threshold, returned>>

\* Mutant: the prints of test_single_text follow the handler, with the
\* values of a failed row.
Except_results ==
    /\ pc = "except"
    /\ IF mode = "batch"
       THEN EndOfRow(ErrorRow(df, index), Append(printed, RowErrorLine(index, error)))
       ELSE /\ printed' = Append(printed, ErrorLine(error))
                             \o ResultLines(Interpreted(FALSE, 0, "", "Error"))
            /\ pc' = "done"
            /\ UNCHANGED <<mode, input_file, df, index, text, execution_id,
                           url, result, results, error, output, posts, gets,
                           sleeps, seen, postAnswer, submitted, fetched,
                           lastHttp>>
    /\ UNCHANGED <<threshold, returned>>

\* except Exception as error: of process_file and of test_single_text.
Except ==
    /\ pc = "except"
    /\ IF mode = "batch"
       THEN EndOfRow(ErrorRow(df, index), Append(printed, RowErrorLine(index, error)))
       ELSE /\ printed' = Append(printed, ErrorLine(error))
            /\ pc' = "done"
            /\ UNCHANGED <<mode, input_file, df, index, text, execution_id,
                           url, result, results, error, output, posts, gets,
                           sleeps, seen, postAnswer, submitted, fetched,
                           lastHttp>>
    /\ UNCHANGED <<threshold, returned>>

\* ------------------------------------------------------------------------
\* Direct calls of the interpreter
\* ------------------------------------------------------------------------

\* Largest number of sub-items of a result entry in a direct call.
MaxItems == 2

\* Sub-items of the payloads of direct calls.
CallItems ==
    { Item("A", 30), Item("B", 90), Item("C", 90), Item("Z", 0), BareItem }

\* The sequences of at most n elements of S.
RECURSIVE SeqsUpTo(_, _)
SeqsUpTo(S, n) ==
    IF n = 0 THEN { <<>> }
    ELSE LET shorter == SeqsUpTo(S, n - 1)
         IN shorter \cup { Append(q, x) : q \in shorter, x \in S }

\* First entries of the payloads of direct calls.
CallEntries ==
    { Entry(nsfw, items) :
        nsfw \in { Absent, Null, Num(0), Num(10), Num(20), Num(50), Num(100) },
        items \in SeqsUpTo(CallItems, MaxItems) }
    \cup { Entry(Num(50), <<Item("A", 30), Item("B", 90), Item("C", 90)>>),
           Entry(Num(10), <<[hasCategory |-> TRUE, category |-> "N",
                             likelihood_score |-> Null]>>) }

\* What follows the first entry in the results list.
CallTails == { <<>>, <<ERejected>>, <<EValidated>>, <<ENullScore>> }

\* Payloads of direct calls.
CallPayloads ==
    { Payload(FALSE, FALSE, "", FALSE, FALSE, <<>>),
      Succeeded(FALSE, FALSE, <<>>),
      Succeeded(TRUE, FALSE, <<>>),
      Succeeded(TRUE, TRUE, <<>>) }
    \cup { Succeeded(TRUE, TRUE, <<e>> \o tail) : e \in CallEntries, tail \in CallTails }

\* Thresholds of direct calls, in hundredths.
CallThresholds == { 0, 10, 20, 50, 101 }

\* A direct call process_moderation_results(results, threshold) is about to
\* be made.
InitCall ==
    /\ pc = "call"
    /\ mode = "none"
    /\ input_file = NoFile
    /\ df = <<>>
    /\ index = 0
    /\ text = 0
    /\ execution_id = NoId
    /\ url = NoId
    /\ result = NoPayload
    /\ results \in CallPayloads
    /\ error = NoErr
    /\ output = NotWritten
    /\ printed = <<>>
    /\ posts = 0
    /\ gets = 0
    /\ sleeps = <<>>
    /\ seen = <<>>
    /\ postAnswer = NoAnswer
    /\ submitted = <<>>
    /\ fetched = <<>>
    /\ lastHttp = NoHttp
    /\ threshold \in CallThresholds
    /\ returned = NoOutcome

\* The call returns or raises.
Call ==
    /\ pc = "call"
    /\ returned' = process_moderation_results(results, threshold)
    /\ pc' = IF returned'.raised THEN "raised" ELSE "returned"
    /\ UNCHANGED <<mode, input_file, df, index, text, execution_id, url, result,
                   results, error, output, printed, posts, gets, sleeps, seen,
                   postAnswer, submitted, fetched, lastHttp, threshold>>

SpecCall == InitCall /\ [][Call]_vars

Next ==
    \/ \E file \in Files : process_file(file)
    \/ \E t \in Texts : test_single_text(t)
    \/ invalid_choice
    \/ \E answer \in PostAnswers : Submit(answer)
    \/ \E answer \in GetAnswers(seen) : PollGet(answer)
    \/ PollSleep
    \/ Interpret
    \/ Except

Spec == Init /\ [][Next]_vars

\* The program is one sequential process that runs to its end: a step that
\* can be taken is taken.  Every HTTP call returns or fails (Submit and
\* PollGet always have an answer), and GetAnswers stops answering
\* "processing" after MaxProcessing answers.
FairSpec == Spec /\ WF_vars(Next)

\* ------------------------------------------------------------------------
\* Properties
\* ------------------------------------------------------------------------

\* The run is a batch over a table that has the required column.
BatchRun == mode = "batch" /\ input_file.readable /\ input_file.hasColumn

\* Row j failed: the handler logged "Error processing row j".
RowFailed(j) ==
    \E i \in 1..Len(printed) : printed[i].k = "RowError" /\ printed[i].row = j

\* The for loop is past row j.
RowDone(j) == j < index \/ pc = "done"

\* What the interpreter computes from the payload row j's poll returned.
Computed(j) ==
    LET r == process_moderation_results(fetched[j], rejection_threshold)
    IN Row(r.rejection_chance, r.category, r.status)

\* C1: per-row isolation.  In a batch, a row that failed has Status
\* "Error", every row the loop is past that did not fail holds the values
\* computed from the payload its poll returned, whatever happened to the
\* other rows, a failure is only ever logged for a row the loop handled, and
\* when the run ends every row has been handled and the output file has
\* been written once with as many rows as the input.
C1_RowIsolation ==
    BatchRun =>
        /\ Len(df) = nrows
        /\ \A j \in 1..nrows :
              /\ RowFailed(j) => RowDone(j) /\ df[j].status = "Error"
              /\ (RowDone(j) /\ ~RowFailed(j)) =>
                    /\ StatusOf(fetched[j]) = "succeeded"
                    /\ df[j] = Computed(j)
              /\ ~RowDone(j) /\ j # index => fetched[j] = NoPayload
        /\ pc = "done" =>
              /\ output.writes = 1
              /\ output.rows = df
              /\ Len(output.rows) = nrows
              /\ submitted = [j \in 1..nrows |-> j]

\* C1 witness: three rows, the second failed at its submit, the first and
\* the third hold computed values, and the file is written.
C1_Witness ==
    /\ BatchRun /\ pc = "done" /\ nrows = 3
    /\ RowFailed(2) /\ ~RowFailed(1) /\ ~RowFailed(3)
    /\ \E i \in 1..Len(printed) :
          printed[i] = RowErrorLine(2, Err("NoId", NoPayload, ""))
    /\ df[1] = Row(5000, "B", "rejected")
    /\ df[2].status = "Error"
    /\ df[3] = Row(1000, "Unknown", "validated")
    /\ Len(output.rows) = 3

\* C2 as stated: when the batch completes, the output has one row per input
\* row, and a failed row has status "Error", score 0 and category
\* "Unknown".
C2_FailedRowUnknown ==
    (BatchRun /\ pc = "done") =>
        /\ Len(output.rows) = nrows
        /\ \A j \in 1..nrows :
              RowFailed(j) => output.rows[j] = Row(0, "Unknown", "Error")

\* C2 amended: when the batch completes, the output has one row per input
\* row, and a failed row has status "Error", score 0 and the empty string
\* as its category.
C2_FailedRowDefaults ==
    (BatchRun /\ pc = "done") =>
        /\ Len(output.rows) = nrows
        /\ \A j \in 1..nrows :
              RowFailed(j) => output.rows[j] = Row(0, "", "Error")

\* C2 witness: a completed batch with a failed row in its output.
C2_Witness ==
    /\ BatchRun /\ pc = "done" /\ nrows = 2
    /\ RowFailed(1) /\ ~RowFailed(2)
    /\ output.rows[1] = Row(0, "", "Error")
    /\ output.rows[2].status = "success"

\* Every status of the sequence is "processing".
AllProcessing(s) == \A i \in 1..Len(s) : s[i] = "processing"

\* The statuses read before the last one.
Front(s) == SubSeq(s, 1, Len(s) - 1)

\* The last status read.
Last(s) == s[Len(s)]

\* The number of "processing" statuses of the sequence.
NProcessing(s) == Cardinality({i \in 1..Len(s) : s[i] = "processing"})

\* The statuses the loop knows.
KnownStatuses == {"processing", "succeeded", "failed"}

\* C3: the poll state machine.  The outcome of a poll is decided by the
\* first status that is not "processing": the poll has returned exactly
\* when that status is "succeeded", and then it returned that payload; it
\* has raised the moderation-failed error carrying that payload exactly
\* when it is "failed"; it has raised the unexpected-status error naming
\* the status when it is anything else, a missing status included; and
\* while every status read is "processing" it has neither returned nor
\* raised.
C3_PollStateMachine ==
    /\ results # NoPayload =>
          /\ seen # <<>> /\ Last(seen) = "succeeded" /\ AllProcessing(Front(seen))
          /\ results = result /\ StatusOf(results) = "succeeded"
    /\ error.kind = "ModerationFailed" =>
          /\ seen # <<>> /\ Last(seen) = "failed" /\ AllProcessing(Front(seen))
          /\ error.payload = result /\ results = NoPayload
    /\ error.kind = "UnexpectedStatus" =>
          /\ seen # <<>> /\ Last(seen) \notin KnownStatuses
          /\ AllProcessing(Front(seen))
          /\ error.status = Last(seen) /\ results = NoPayload
    /\ seen # <<>> =>
          /\ Last(seen) = "succeeded" =>
                results = result /\ pc \in {"interpret", "except", "done"}
          /\ Last(seen) = "failed" =>
                error.kind = "ModerationFailed" /\ pc \in {"except", "done"}
          /\ Last(seen) \notin KnownStatuses =>
                error.kind = "UnexpectedStatus" /\ pc \in {"except", "done"}
          /\ (AllProcessing(seen) /\ gets = Len(seen)) =>
                pc \in {"get", "sleep"} /\ results = NoPayload /\ error = NoErr

\* C3 witness: after two "processing" answers the API omitted the status,
\* and the poll raised the unexpected-status error.
C3_Witness ==
    /\ pc = "except"
    /\ seen = <<"processing", "processing", "">>
    /\ error = Err("UnexpectedStatus", NoPayload, "")
    /\ ~result.hasStatus

\* C4: a poll that read k "processing" statuses and then another status
\* made exactly k + 1 GETs and slept exactly k times, each time for
\* wait_interval; it sleeps only after a "processing" answer, and makes one
\* GET per iteration.
C4_SleepsAndGets ==
    /\ \A i \in 1..Len(sleeps) : sleeps[i] = wait_interval
    /\ pc = "sleep" =>
          /\ seen # <<>> /\ Last(seen) = "processing"
          /\ Len(sleeps) = NProcessing(seen) - 1
          /\ gets = Len(seen)
    /\ pc = "get" => Len(sleeps) = NProcessing(seen) /\ gets = Len(seen)
    /\ (seen # <<>> /\ Last(seen) # "processing") =>
          /\ Len(sleeps) = NProcessing(seen)
          /\ gets = NProcessing(seen) + 1
          /\ gets = Len(seen)

\* C4 witness: [processing, processing, succeeded] returned after two
\* sleeps and three GETs.
C4_Witness ==
    /\ pc = "interpret"
    /\ seen = <<"processing", "processing", "succeeded">>
    /\ sleeps = <<wait_interval, wait_interval>>
    /\ gets = 3

\* The API has answered every GET of this poll, and only with "processing".
StuckProcessing == seen # <<>> /\ AllProcessing(seen) /\ gets = Len(seen)

\* C5: there is no bound on the attempts.  As long as the API has only
\* reported "processing", whatever the number of GETs, the poll is still
\* looping: it has not returned and not raised; and in a batch no later
\* row has been submitted or touched and the output file is not written.
C5_NoAttemptBound ==
    StuckProcessing =>
        /\ pc \in {"get", "sleep"}
        /\ results = NoPayload /\ error = NoErr
        /\ BatchRun =>
              /\ output = NotWritten
              /\ \A j \in 1..nrows :
                    j > index => df[j] = DefaultRow /\ fetched[j] = NoPayload
              /\ lastHttp.row = index
              /\ \A i \in 1..Len(submitted) : submitted[i] <= index

\* C5 witness: a batch whose first row of several has had MaxProcessing
\* "processing" answers and is still waiting.
C5_Witness ==
    /\ BatchRun /\ StuckProcessing /\ pc = "sleep"
    /\ gets = MaxProcessing /\ index = 1 /\ nrows > 1

\* C6: a table without the required column.  process_file has raised the
\* missing-column error, which main printed; no row was processed, no POST
\* and no GET was made, and no output file was written.
C6_MissingColumn ==
    (mode = "batch" /\ input_file.readable /\ ~input_file.hasColumn) =>
        /\ pc = "done"
        /\ printed = <<ErrorLine(Err("MissingColumn", NoPayload, ""))>>
        /\ lastHttp = NoHttp /\ posts = 0 /\ gets = 0 /\ submitted = <<>>
        /\ output = NotWritten
        /\ df = <<>> /\ index = 0

\* C6 witness: a table of two rows without the column has been refused.
C6_Witness ==
    /\ mode = "batch" /\ input_file = File(TRUE, FALSE, 2)
    /\ pc = "done" /\ Len(printed) = 1

\* C7: submit.  An item has had no POST before its submit and exactly one
\* after it, carrying the item's text; when the answer had no "id", submit
\* raised the no-id error, no GET was made and the POST was not repeated;
\* when the answer had an "id", submit returned exactly that identifier.
C7_Submit ==
    /\ pc = "post" => posts = 0 /\ postAnswer = NoAnswer /\ gets = 0
    /\ pc \in {"get", "sleep", "interpret", "except"} => posts = 1
    /\ (mode = "single" /\ pc = "done") => posts = 1
    /\ lastHttp.method = "POST" =>
          lastHttp.text = IF mode = "batch" THEN TextOfRow(lastHttp.row) ELSE text
    /\ posts = 1 =>
          /\ postAnswer.raised =>
                /\ error.kind = "HttpError" /\ gets = 0 /\ url = NoId
          /\ (~postAnswer.raised /\ ~postAnswer.hasId) =>
                /\ error.kind = "NoId" /\ gets = 0 /\ url = NoId
                /\ pc \in {"except", "done"}
                /\ lastHttp.method = "POST" /\ lastHttp.n = 1
          /\ (~postAnswer.raised /\ postAnswer.hasId) =>
                execution_id = postAnswer.id

\* C7 witness: the POST of the second row was answered without "id" and
\* submit raised.
C7_Witness ==
    /\ BatchRun /\ index = 2 /\ pc = "except"
    /\ postAnswer = PostAnswer(FALSE, FALSE, NoId)
    /\ error.kind = "NoId" /\ posts = 1 /\ gets = 0

\* C8: no retry.  In a batch, once the last HTTP call made has failed,
\* either the program is handling that failure for that row, or the row is
\* an error row and the program is at the POST of the next row, no call
\* made for it yet, or at the end of the run.
C8_NoRetry ==
    (BatchRun /\ ~lastHttp.ok) =>
        \/ /\ pc = "except" /\ index = lastHttp.row
           /\ error.kind = "HttpError" /\ posts + gets = lastHttp.n
        \/ /\ df[lastHttp.row].status = "Error" /\ RowFailed(lastHttp.row)
           /\ \/ pc = "post" /\ index = lastHttp.row + 1 /\ posts = 0 /\ gets = 0
              \/ pc = "done" /\ lastHttp.row = nrows

\* C8 witness: the second GET of a row failed; the row is an error row and
\* the program is at the POST of the next row.
C8_Witness ==
    /\ BatchRun /\ ~lastHttp.ok
    /\ lastHttp.method = "GET" /\ lastHttp.n = 3
    /\ pc = "post" /\ index = lastHttp.row + 1
    /\ df[lastHttp.row].status = "Error"

\* C9: the frame of a row failure.  A failed row holds the default
\* percentage 0.0, the default category "" and Status "Error"; and the
\* step that handles a failure finds the row with its three defaults and
\* changes nothing in the table but that row's Status.
C9_ErrorFrame ==
    /\ [](BatchRun =>
            \A j \in 1..nrows : RowFailed(j) => df[j] = Row(0, "", "Error"))
    /\ [][(BatchRun /\ pc = "except") =>
            /\ df[index] = Row(0, "", "")
            /\ df' = [df EXCEPT ![index] = Row(0, "", "Error")]]_vars

\* C9 witness: the second row failed in the interpreter, after its poll
\* had returned; it holds the defaults and "Error", and the first row still
\* holds its computed values.
C9_Witness ==
    /\ BatchRun /\ nrows >= 2 /\ RowDone(2)
    /\ \E i \in 1..Len(printed) :
          printed[i] = RowErrorLine(2, Err("TypeError", NoPayload, ""))
    /\ fetched[2] # NoPayload
    /\ df[2] = Row(0, "", "Error")
    /\ df[1] = Row(2000, "A", "rejected")

\* The rows that have been POSTed and whose outcome is not recorded.
Outstanding ==
    {submitted[k] : k \in {i \in 1..Len(submitted) : df[submitted[i]].status = ""}}

\* C10: rows are processed one at a time in input order.  The rows POSTed
\* so far are rows 1, 2, ... in that order; every one of them but the last
\* has its outcome recorded, so at most one row is outstanding, and it is
\* the row the loop is at; a poll is under way only for that row.
C10_Sequential ==
    BatchRun =>
        /\ Len(submitted) <= nrows
        /\ submitted = [j \in 1..Len(submitted) |-> j]
        /\ \A k \in 1..(Len(submitted) - 1) : df[submitted[k]].status # ""
        /\ Cardinality(Outstanding) <= 1
        /\ \A j \in Outstanding :
              j = index /\ pc \in {"get", "sleep", "interpret", "except"}
        /\ pc = "post" => Outstanding = {} /\ Len(submitted) = index - 1
        /\ url # NoId => Outstanding = {index}

\* C10 witness: the third row is being polled, with the outcomes of the
\* first two recorded.
C10_Witness ==
    /\ BatchRun /\ pc = "sleep" /\ index = 3
    /\ submitted = <<1, 2, 3>>
    /\ df[1].status = "validated" /\ df[2].status = "Error" /\ df[3].status = ""
    /\ execution_id = StrId("h2")

\* C11: the output file is written at most once, and when it has been
\* written the run is over, every input row has its outcome recorded, and
\* the file holds the whole table.
C11_WrittenOnceAtEnd ==
    /\ output.writes <= 1
    /\ output.writes = 1 =>
          /\ BatchRun /\ pc = "done"
          /\ Len(df) = nrows
          /\ \A j \in 1..nrows : df[j].status # ""
          /\ output.rows = df
    /\ (BatchRun /\ pc # "done") => output = NotWritten

\* C11 witness: a table of three rows has been written, its last row an
\* error row.
C11_Witness ==
    /\ BatchRun /\ pc = "done" /\ nrows = 3
    /\ output.writes = 1 /\ Len(output.rows) = 3
    /\ output.rows[1].status = "succeeded"
    /\ output.rows[3].status = "Error"

\* A direct call of the interpreter is over.
CallOver == pc \in {"returned", "raised"}

\* The payload has a text-moderation section with a non-empty results list.
NonEmptyList(p) == p.hasContent /\ p.hasTM /\ p.hasList /\ p.list # <<>>

\* The score as a number: the default 0 when the key is missing.
ScoreValue(x) == IF x.k = "num" THEN x.v ELSE 0

\* Every score of the entry is a number or missing.
TypedEntry(e) ==
    /\ e.nsfw_likelihood_score.k # "null"
    /\ \A i \in 1..Len(e.items) : e.items[i].likelihood_score.k # "null"

\* C12: for a payload with a non-empty results list whose first entry has
\* numbers for scores, and for every threshold, the interpreter returns
\* "rejected" exactly when the first entry's nsfw_likelihood_score is at
\* least the threshold, a score equal to it included, "validated"
\* otherwise, and the score times 100 as the percentage.
C12_ThresholdAndPercentage ==
    (CallOver /\ NonEmptyList(results) /\ TypedEntry(results.list[1])) =>
        LET score == ScoreValue(results.list[1].nsfw_likelihood_score) IN
        /\ pc = "returned"
        /\ returned.status = "rejected" <=> score >= threshold
        /\ returned.status = "validated" <=> score < threshold
        /\ returned.rejection_chance = 100 * score
        /\ (score = 50 /\ threshold = 20) =>
              returned.status = "rejected" /\ returned.rejection_chance = 5000
        /\ (score = 10 /\ threshold = 20) =>
              returned.status = "validated" /\ returned.rejection_chance = 1000

\* C12 witness: a score equal to the threshold 0.2 was rejected, at 20%.
C12_Witness ==
    /\ pc = "returned" /\ NonEmptyList(results)
    /\ results.list[1].nsfw_likelihood_score = Num(20) /\ threshold = 20
    /\ returned.status = "rejected" /\ returned.rejection_chance = 2000

\* The likelihood_score of sub-item i, the default 0 when it is missing.
ItemScore(items, i) == ScoreValue(items[i].likelihood_score)

\* The label of sub-item i, the default "Unknown" when it is missing.
ItemLabel(items, i) ==
    IF items[i].hasCategory THEN items[i].category ELSE "Unknown"

\* C13 as stated: the category returned is the label of the first
\* sub-item with the maximum likelihood_score over all the sub-items of
\* the first entry, and "Unknown" if there are no sub-items.  The claim's
\* choice of sub-item is written here as the claim words it: the first
\* index whose score no other score exceeds.  The loop of the program is
\* HighestCategory, which starts from a highest score of 0.
C13_MaxCategory ==
    (pc = "returned" /\ NonEmptyList(results)) =>
        LET items == results.list[1].items
            claimed ==
                CHOOSE i \in 1..Len(items) :
                    /\ \A j \in 1..Len(items) :
                          ItemScore(items, j) <= ItemScore(items, i)
                    /\ \A j \in 1..(i - 1) :
                          ItemScore(items, j) < ItemScore(items, i)
        IN returned.category =
               IF items = <<>> THEN "Unknown" ELSE ItemLabel(items, claimed)

\* The payload has no text-moderation section.
LacksTM(p) == ~(p.hasContent /\ p.hasTM)

\* The payload has a text-moderation section whose results list is empty
\* or absent.
EmptyList(p) == p.hasContent /\ p.hasTM /\ (~p.hasList \/ p.list = <<>>)

\* C15: the interpreter returns (0, "Unknown", "success") exactly when the
\* payload has no text-moderation section, and (0, "Unknown", "succeeded")
\* exactly when it has one whose results list is empty or absent; it
\* raises in neither case; and whenever it returns in another case the
\* status is "rejected" or "validated".
C15_NoDataReturns ==
    CallOver =>
        /\ LacksTM(results) <=>
              returned = Interpreted(FALSE, 0, "Unknown", "success")
        /\ EmptyList(results) <=>
              returned = Interpreted(FALSE, 0, "Unknown", "succeeded")
        /\ (LacksTM(results) \/ EmptyList(results)) => pc = "returned"
        /\ (pc = "returned" /\ NonEmptyList(results)) =>
              returned.status \in {"rejected", "validated"}

\* C15 witness: a text-moderation section without a results list gave
\* "succeeded".
C15_Witness ==
    /\ pc = "returned" /\ results = Succeeded(TRUE, FALSE, <<>>)
    /\ returned = Interpreted(FALSE, 0, "Unknown", "succeeded")

\* C18: the interpreter depends only on the first entry.  Whatever follows
\* the first entry of a non-empty results list, the call gives what it
\* gives on the same first entry followed by anything else.
C18_FirstEntryOnly ==
    (CallOver /\ NonEmptyList(results)) =>
        \A tail \in CallTails :
            process_moderation_results(
                Succeeded(TRUE, TRUE, <<results.list[1]>> \o tail), threshold)
            = returned

\* C18 witness: the first entry was validated although the second entry
\* has a null score, on which the interpreter raises.
C18_Witness ==
    /\ pc = "returned" /\ Len(results.list) = 2
    /\ results.list[2] = ENullScore
    /\ results.list[1].nsfw_likelihood_score = Num(10)
    /\ returned.status = "validated"


\* The statuses the interpreter and the handler of process_file produce.
RecordedStatuses == {"validated", "rejected", "success", "succeeded", "Error"}

\* C14 as stated: every status in the output table after a batch run is
\* validated, rejected or error.
C14_StatusEnum ==
    (BatchRun /\ pc = "done") =>
        \A j \in 1..Len(output.rows) :
            output.rows[j].status \in {"validated", "rejected", "Error"}

\* C14: every status in the output table after a batch run is validated,
\* rejected, success, succeeded or Error; it is "success" exactly for a
\* row that did not fail and whose payload has no text-moderation section,
\* and "succeeded" exactly for a row that did not fail and whose payload
\* has that section with an empty or absent results list.
C14_StatusValues ==
    (BatchRun /\ pc = "done") =>
        /\ output.writes = 1 /\ Len(output.rows) = nrows
        /\ \A j \in 1..nrows :
              /\ output.rows[j].status \in RecordedStatuses
              /\ output.rows[j].status = "Error" <=> RowFailed(j)
              /\ output.rows[j].status = "success" <=>
                    ~RowFailed(j) /\ LacksTM(fetched[j])
              /\ output.rows[j].status = "succeeded" <=>
                    ~RowFailed(j) /\ EmptyList(fetched[j])

\* C14 witness: the output of a finished batch holds a row with status
\* "success" and a row with status "succeeded".
C14_Witness ==
    /\ BatchRun /\ pc = "done" /\ output.writes = 1 /\ nrows = 2
    /\ output.rows[1] = Row(0, "Unknown", "success")
    /\ output.rows[2] = Row(0, "Unknown", "succeeded")

\* A result line is on the terminal.
ResultPrinted ==
    \E i \in 1..Len(printed) :
        printed[i].k \in {"--- Results ---", "Rejection Chance", "Category", "Status"}

\* C16: interactive mode.  Result lines are on the terminal only when the
\* run is over after one POST that returned an identifier, a poll whose
\* GETs all returned and whose last status was "succeeded", and an
\* interpretation that did not raise, and they are then the only lines;
\* after a failure the only line is the error, and the step that handles a
\* failure prints it and ends the run.
C16_SingleFailures ==
    /\ [](mode = "single" =>
            /\ ResultPrinted =>
                  /\ pc = "done" /\ error = NoErr
                  /\ posts = 1 /\ ~postAnswer.raised /\ postAnswer.hasId
                  /\ gets = Len(seen) /\ gets >= 1 /\ Last(seen) = "succeeded"
                  /\ \A i \in 1..(Len(seen) - 1) : seen[i] = "processing"
                  /\ lastHttp.method = "GET" /\ lastHttp.ok
                  /\ lastHttp.n = posts + gets
                  /\ ~process_moderation_results(results, rejection_threshold).raised
                  /\ printed = ResultLines(
                         process_moderation_results(results, rejection_threshold))
            /\ pc = "except" => error # NoErr /\ printed = <<>>
            /\ pc = "done" =>
                  \/ error = NoErr /\ ResultPrinted
                  \/ error # NoErr /\ printed = <<ErrorLine(error)>>)
    /\ [][(mode = "single" /\ pc = "except") =>
             /\ pc' = "done"
             /\ printed' = <<ErrorLine(error)>>
             /\ output' = output /\ posts' = posts /\ gets' = gets]_vars

\* C16 witness: submit and poll succeeded, the interpreter raised, and the
\* run ended with the error as its only line.
C16_Witness ==
    /\ mode = "single" /\ pc = "done"
    /\ posts = 1 /\ gets = 2 /\ seen = <<"processing", "succeeded">>
    /\ error.kind = "TypeError"
    /\ printed = <<ErrorLine(error)>>

\* C17: the identifier in the URL of every GET is the one this item's POST
\* returned.  While an item is polled or interpreted its POST returned a
\* string identifier, which execution_id and the URL hold; every GET is
\* made for the row the loop is at, after that row's POST or after a GET of
\* the same row with the same identifier; and after a submit that failed no
\* GET is made, whatever execution_id still holds.
C17_HandleOfOwnCycle ==
    /\ [](/\ pc \in {"get", "sleep", "interpret"} =>
               /\ ~postAnswer.raised /\ postAnswer.hasId
               /\ postAnswer.id.k = "str"
               /\ execution_id = postAnswer.id /\ url = postAnswer.id
               /\ mode = "batch" => Last(submitted) = index
          /\ (gets >= 1 /\ pc \in {"get", "sleep", "interpret", "except"}) =>
               /\ lastHttp.method = "GET" /\ lastHttp.row = index
               /\ lastHttp.key = postAnswer.id
          /\ (posts = 1 /\ (postAnswer.raised \/ ~postAnswer.hasId)) => gets = 0)
    /\ [][gets' = gets + 1 =>
             /\ lastHttp'.method = "GET"
             /\ lastHttp'.key = postAnswer.id /\ postAnswer' = postAnswer
             /\ lastHttp'.row = index /\ lastHttp.row = index
             /\ lastHttp.method = "GET" => lastHttp.key = lastHttp'.key
             /\ lastHttp.method = "POST" => gets = 0 /\ lastHttp.ok]_vars

\* C17 witness: the second GET of row 2 used the identifier row 2's POST
\* returned, which is not the one row 1 was polled with.
C17_Witness ==
    /\ BatchRun /\ index = 2 /\ pc = "interpret" /\ gets = 2
    /\ postAnswer.id = StrId("h2")
    /\ lastHttp = Http("GET", 2, 0, StrId("h2"), TRUE, 3)
    /\ df[1].status = "validated"


\* C19: a batch over a table that has the required column eventually
\* reaches the end of the table and writes the output file, with one row
\* per input row and every Status non-empty.
C19_BatchTerminates ==
    BatchRun ~>
        /\ pc = "done"
        /\ output.writes = 1 /\ Len(output.rows) = nrows
        /\ \A j \in 1..nrows : output.rows[j].status # ""

\* C19 witness: a batch of three rows is over and its file written, the
\* last row having waited through MaxProcessing "processing" answers.
C19_Witness ==
    /\ BatchRun /\ pc = "done" /\ nrows = 3
    /\ output.writes = 1 /\ Len(output.rows) = 3
    /\ lastHttp.method = "GET" /\ lastHttp.row = 3
    /\ lastHttp.n = MaxProcessing + 2
    /\ \A j \in 1..3 : output.rows[j].status # ""

====
